---- MODULE Spec2Model ----
(***************************************************************************)
(* Model of kingzbauer/gmail-attachments.                                  *)
(*                                                                         *)
(* Two programs of the repository are modelled over the same variables:    *)
(*   prog = "service" : Service.ProcessPDFAttachments     (src/service.go) *)
(*   prog = "driver"  : main / processMessage   (src/unnamed/part_001 and  *)
(*                      src/mail.go, which hold the same functions)       *)
(* and a third specification, SpecWalk, applies the two tree walks to      *)
(* generated part trees.                                                   *)
(*                                                                         *)
(* Strings that the code only compares or concatenates (ids, filenames,    *)
(* MIME types) are TLA+ strings; base64 payloads are sequences of          *)
(* one-character strings so that DecodeString can be computed.             *)
(***************************************************************************)
EXTENDS Integers, Sequences, FiniteSets, TLC

(***************************************************************************)
(* Bounds                                                                  *)
(***************************************************************************)
MaxMsgs == 2      \* messages returned by the listing call
MaxNodes == 4     \* nodes of a generated part tree (SpecWalk)
MaxNameLen == 2   \* characters of an original filename (SpecNames)
MaxAtts == 4      \* attachments of a closed sequence (SpecClose)

(***************************************************************************)
(* base64.URLEncoding.DecodeString (padded, non-strict), on inputs without *)
(* CR/LF.                                                                  *)
(***************************************************************************)
encodeURL ==
  << "A","B","C","D","E","F","G","H","I","J","K","L","M","N","O","P",
     "Q","R","S","T","U","V","W","X","Y","Z","a","b","c","d","e","f",
     "g","h","i","j","k","l","m","n","o","p","q","r","s","t","u","v",
     "w","x","y","z","0","1","2","3","4","5","6","7","8","9","-","_" >>

PadChar == "="

InAlphabet(c) == \E n \in 1..Len(encodeURL) : encodeURL[n] = c

\* the 6-bit value of an alphabet character
B64Index(c) == (CHOOSE n \in 1..Len(encodeURL) : encodeURL[n] = c) - 1

\* the 24-bit value of a quantum of four characters; padding counts as 0
QuantumValue(q) ==
  LET v(n) == IF q[n] = PadChar THEN 0 ELSE B64Index(q[n])
  IN  v(1) * 262144 + v(2) * 4096 + v(3) * 64 + v(4)

QuantumBytes(q) ==
  LET val == QuantumValue(q)
      all == << val \div 65536, (val \div 256) % 256, val % 256 >>
  IN  IF q[3] = PadChar THEN SubSeq(all, 1, 1)
      ELSE IF q[4] = PadChar THEN SubSeq(all, 1, 2)
      ELSE all

\* a quantum is well formed: four alphabet characters, or, for the last
\* quantum only, "xx==" or "xxx="
QuantumOK(q, last) ==
  /\ InAlphabet(q[1])
  /\ InAlphabet(q[2])
  /\ \/ InAlphabet(q[3]) /\ InAlphabet(q[4])
     \/ last /\ InAlphabet(q[3]) /\ q[4] = PadChar
     \/ last /\ q[3] = PadChar /\ q[4] = PadChar

RECURSIVE DecodeQuanta(_)
DecodeQuanta(s) ==
  IF Len(s) = 0 THEN [ok |-> TRUE, bytes |-> <<>>]
  ELSE IF Len(s) < 4 THEN [ok |-> FALSE, bytes |-> <<>>]
  ELSE LET q    == SubSeq(s, 1, 4)
           rest == SubSeq(s, 5, Len(s))
       IN  IF ~QuantumOK(q, Len(rest) = 0) THEN [ok |-> FALSE, bytes |-> <<>>]
           ELSE LET r == DecodeQuanta(rest)
                IN  IF r.ok THEN [ok |-> TRUE, bytes |-> QuantumBytes(q) \o r.bytes]
                    ELSE [ok |-> FALSE, bytes |-> <<>>]

DecodeString(s) == DecodeQuanta(s)

(***************************************************************************)
(* Payload data used as inputs.                                            *)
(***************************************************************************)
HelloData == << "S","G","V","s","b","G","8","=" >>     \* "SGVsbG8=" -> Hello
PdfData   == << "J","V","B","E","R","g","=","=" >>     \* "JVBERg==" -> %PDF
TruncData == << "S","G","V","s","b","G","8" >>         \* truncated padding
NoData    == << >>

(***************************************************************************)
(* gmail.MessagePart / gmail.MessagePartBody / gmail.Message               *)
(***************************************************************************)
PDF   == "application/pdf"
MIXED == "multipart/mixed"
TEXT  == "text/plain"

MessagePartBody(att, data) == [AttachmentId |-> att, Data |-> data]

MessagePart(mime, fname, att, data, kids) ==
  [MimeType |-> mime, Filename |-> fname, PartId |-> "",
   Body |-> MessagePartBody(att, data), Parts |-> kids]

\* Gmail numbers the parts by position: "" for the root, then "0", "1",
\* "0.0", ...
DigitStr == << "0","1","2","3","4","5","6","7","8","9" >>

ChildPartId(pid, n) == IF pid = "" THEN DigitStr[n] ELSE pid \o "." \o DigitStr[n]

RECURSIVE WithPartIds(_, _)
WithPartIds(t, pid) ==
  [t EXCEPT !.PartId = pid,
            !.Parts  = [n \in 1..Len(t.Parts) |->
                          WithPartIds(t.Parts[n], ChildPartId(pid, n))]]

\* a message: Payload is <<>> (nil, a summary) or << root part >>
Message(id, payload) == [Id |-> id, Payload |-> payload]

MsgIds == << "M1", "M2", "M3", "M4" >>

(***************************************************************************)
(* The part trees the listed messages are drawn from.                      *)
(***************************************************************************)
TreeA == MessagePart(PDF, "a", "", HelloData, <<>>)
TreeB == MessagePart(MIXED, "", "", NoData,
           << MessagePart(TEXT, "", "", HelloData, <<>>),
              MessagePart(PDF, "b", "A1", NoData, <<>>) >>)
TreeC == MessagePart(MIXED, "", "", NoData,
           << MessagePart(PDF, "c", "", HelloData, <<>>),
              MessagePart(PDF, "c", "", TruncData, <<>>) >>)
TreeD == MessagePart(MIXED, "", "", NoData, <<>>)
TreeE == MessagePart(PDF, "e", "A1", NoData, <<>>)

Catalogue ==
  { WithPartIds(t, "") : t \in {TreeA, TreeB, TreeC, TreeD, TreeE} }

\* what Users.Messages.Attachments.Get can answer
FetchOutcomes ==
  { [ok |-> FALSE, data |-> NoData],
    [ok |-> TRUE,  data |-> PdfData] }

\* the PartIds of the nodes of a tree that carry a remote attachment id
RECURSIVE RemotePartIds(_)
RemotePartIds(t) ==
  (IF t.Body.AttachmentId # "" THEN {t.PartId} ELSE {})
    \cup UNION { RemotePartIds(t.Parts[n]) : n \in 1..Len(t.Parts) }

RECURSIVE PdfPartIds(_)
PdfPartIds(t) ==
  (IF t.MimeType = PDF THEN {t.PartId} ELSE {})
    \cup UNION { PdfPartIds(t.Parts[n]) : n \in 1..Len(t.Parts) }

(***************************************************************************)
(* Trace of the calls made to the Mail Service and to the sink, and of the *)
(* decode steps, in program order.                                         *)
(***************************************************************************)
Ev(op, id, part, ok) ==
  [op |-> op, id |-> id, part |-> part, ok |-> ok,
   att |-> "", name |-> "", data |-> <<>>, ids |-> <<>>, gen |-> ""]

VARIABLES
  prog,                 \* "service", "driver" or "walk"
  pc,                   \* position in the program
  mailbox,              \* the full messages held by the server
  inbox,                \* what the listing call answers
  markRead,             \* parameter of ProcessPDFAttachments
  writerKind,           \* what the WriterGenerator returns
  fileGen,              \* parameter of ProcessPDFAttachments
  msgs,                 \* result of the listing call
  i,                    \* range index over msgs (1-based)
  msg,                  \* range variable of the outer loop
  parts,                \* result of retrieveMessageAttachments
  p,                    \* range index over parts (1-based)
  processedAttachments,
  processedMsgs,
  readMsgs,             \* the driver's list of processed messages
  ret,                  \* what ProcessPDFAttachments returned
  walked,               \* result of a walk (SpecWalk)
  trace,
  files,                \* the resources obtained from the sink
  closeErr              \* local err of ProcessedAttachments.Close: 0 is nil

vars == << prog, pc, mailbox, inbox, markRead, writerKind, fileGen, msgs, i, msg, parts,
           p, processedAttachments, processedMsgs, readMsgs, ret, walked,
           trace, files, closeErr >>

inputs == << prog, mailbox, inbox, markRead, writerKind, fileGen >>

NoMsg == Message("", <<>>)
NoRet == [returned |-> FALSE, attachments |-> <<>>, err |-> FALSE]
NoWalk == [parts |-> <<>>, err |-> FALSE, calls |-> <<>>, visited |-> <<>>]

(***************************************************************************)
(* mail.go                                                                 *)
(***************************************************************************)
\* variant of constructFilename: the three fields are joined without "-"
constructFilenameUnseparated(part, m) ==
  part.Filename \o m.Id \o part.PartId \o ".pdf"

constructFilename(part, m) ==
  part.Filename \o "-" \o m.Id \o "-" \o part.PartId \o ".pdf"

\* variant of retrieveAttachment: the fetch is made and its answer is not used
retrieveAttachmentKeepsBody(m, part, resp) ==
  IF part.Body.AttachmentId # ""
  THEN LET r == resp[part.PartId]
           e == [Ev("GetAttachment", m.Id, part.PartId, r.ok)
                   EXCEPT !.att = part.Body.AttachmentId, !.data = r.data]
       IN  [body |-> part.Body, err |-> ~r.ok, calls |-> << e >>]
  ELSE [body |-> part.Body, err |-> FALSE, calls |-> <<>>]

\* resp maps the PartId of a part to the answer of the attachment fetch
retrieveAttachment(m, part, resp) ==
  IF part.Body.AttachmentId # ""
  THEN LET r == resp[part.PartId]
           e == [Ev("GetAttachment", m.Id, part.PartId, r.ok)
                   EXCEPT !.att = part.Body.AttachmentId, !.data = r.data]
       IN  [body  |-> MessagePartBody(part.Body.AttachmentId, r.data),
            err   |-> ~r.ok,
            calls |-> << e >>]
  ELSE [body |-> part.Body, err |-> FALSE, calls |-> <<>>]

IsPDF(part) == part.MimeType = "application/pdf"

(***************************************************************************)
(* service.go: retrieveMessageAttachments                                  *)
(***************************************************************************)
RECURSIVE retrieveMessageAttachments(_, _, _)
RECURSIVE RangeParts(_, _, _, _)

\* the loop over part.Parts: an error of a child is dropped
RangeParts(m, kids, n, resp) ==
  IF n > Len(kids) THEN NoWalk
  ELSE LET h == retrieveMessageAttachments(m, kids[n], resp)
           t == RangeParts(m, kids, n + 1, resp)
       IN  [parts   |-> (IF ~h.err THEN h.parts ELSE <<>>) \o t.parts,
            err     |-> FALSE,
            calls   |-> h.calls \o t.calls,
            visited |-> h.visited \o t.visited]

\* variant of retrieveMessageAttachments: a matched part is also descended into
retrieveMessageAttachmentsDescending(m, part, resp) ==
  LET below == RangeParts(m, part.Parts, 1, resp)
  IN  IF IsPDF(part)
      THEN LET r == retrieveAttachment(m, part, resp)
           IN  IF r.err
               THEN [parts |-> <<>>, err |-> TRUE, calls |-> r.calls,
                     visited |-> << part.PartId >>]
               ELSE [parts |-> << [part EXCEPT !.Body = r.body] >> \o below.parts,
                     err |-> FALSE, calls |-> r.calls \o below.calls,
                     visited |-> << part.PartId >> \o below.visited]
      ELSE below

retrieveMessageAttachments(m, part, resp) ==
  IF IsPDF(part)
  THEN LET r == retrieveAttachment(m, part, resp)
       IN  IF r.err
           THEN [parts |-> <<>>, err |-> TRUE, calls |-> r.calls,
                 visited |-> << part.PartId >>]
           ELSE [parts |-> << [part EXCEPT !.Body = r.body] >>, err |-> FALSE,
                 calls |-> r.calls, visited |-> << part.PartId >>]
  ELSE RangeParts(m, part.Parts, 1, resp)

(***************************************************************************)
(* service.go: processAttachment                                           *)
(***************************************************************************)
\* the sinks, by name: the package's FileGenerator, which NewService stores
\* in srv.WriterGenerator (line 55), and a sink of the caller's own
FileGenerator == "FileGenerator"
CallerSink == "CallerSink"
srvWriterGenerator == FileGenerator

\* an *os.File: a Writer, a Reader and a Closer
NewFile(name) ==
  [name |-> name, content |-> <<>>, written |-> FALSE, closed |-> FALSE,
   closer |-> TRUE]

processAttachment(m, part, sinkOk, writeOk, fs) ==
  LET filename == constructFilename(part, m)
      eSink    == [Ev("Sink", m.Id, part.PartId, sinkOk)
                     EXCEPT !.name = filename, !.gen = srvWriterGenerator]
      fs1      == Append(fs, NewFile(filename))
      f        == Len(fs1)
      d        == DecodeString(part.Body.Data)
      eDec     == [Ev("Decode", m.Id, part.PartId, d.ok) EXCEPT !.data = part.Body.Data]
      eWrite   == [Ev("Write", m.Id, part.PartId, writeOk)
                     EXCEPT !.name = filename, !.data = d.bytes]
      fs2      == [fs1 EXCEPT ![f].content = d.bytes, ![f].written = TRUE]
      none     == [Filename |-> "", Body |-> 0]
  IN  IF ~sinkOk
      THEN [att |-> none, err |-> TRUE, panic |-> FALSE, calls |-> << eSink >>, files |-> fs]
      ELSE IF ~d.ok
      THEN [att |-> none, err |-> TRUE, panic |-> FALSE, calls |-> << eSink, eDec >>,
            files |-> fs1]
      ELSE IF ~writeOk
      THEN [att |-> none, err |-> TRUE, panic |-> FALSE,
            calls |-> << eSink, eDec, eWrite >>, files |-> fs1]
      ELSE IF writerKind # "ReadWriter"
      THEN [att |-> none, err |-> FALSE, panic |-> TRUE,
            calls |-> << eSink, eDec, eWrite >>, files |-> fs2]
      ELSE [att |-> [Filename |-> filename, Body |-> f], err |-> FALSE, panic |-> FALSE,
            calls |-> << eSink, eDec, eWrite >>, files |-> fs2]

(***************************************************************************)
(* mail.go: markAsRead                                                     *)
(***************************************************************************)
markAsRead(ms, ok) ==
  [Ev("BatchModify", "", "", ok) EXCEPT !.ids = [n \in 1..Len(ms) |-> ms[n].Id]]

(***************************************************************************)
(* mail.go: processPDFFile, processMessagePayload, processMessage          *)
(*                                                                         *)
(* orc maps the PartId of a pdf part to the step of processPDFFile that    *)
(* the environment makes fail: "fetch" (Attachments.Get), "open"           *)
(* (os.OpenFile), "write" (f.Write) or "none".                             *)
(***************************************************************************)
FetchFailed == [ok |-> FALSE, data |-> NoData]
FetchedPdf  == [ok |-> TRUE, data |-> PdfData]

FailSteps(t) == IF t.Body.AttachmentId # "" THEN {"none", "fetch", "open", "write"}
                ELSE {"none", "open", "write"}

RECURSIVE PdfNodes(_)
PdfNodes(t) ==
  (IF t.MimeType = PDF THEN {t} ELSE {})
    \cup UNION { PdfNodes(t.Parts[n]) : n \in 1..Len(t.Parts) }

Oracles(t) ==
  { orc \in [PdfPartIds(t) -> {"none", "fetch", "open", "write"}] :
      \A q \in PdfNodes(t) : orc[q.PartId] \in FailSteps(q) }

FetchResp(orc) == [q \in DOMAIN orc |-> IF orc[q] = "fetch" THEN FetchFailed ELSE FetchedPdf]

NoResult == [err |-> FALSE, calls |-> <<>>, files |-> <<>>, visited |-> <<>>]

processPDFFile(part, m, orc, fs) ==
  LET r        == retrieveAttachment(m, part, FetchResp(orc))
      filename == constructFilename(part, m)
      openOk   == orc[part.PartId] # "open"
      writeOk  == orc[part.PartId] # "write"
      eOpen    == [Ev("Sink", m.Id, part.PartId, openOk) EXCEPT !.name = filename]
      f        == Len(fs) + 1
      d        == DecodeString(r.body.Data)
      eDec     == [Ev("Decode", m.Id, part.PartId, d.ok) EXCEPT !.data = r.body.Data]
      eWrite   == [Ev("Write", m.Id, part.PartId, writeOk)
                     EXCEPT !.name = filename, !.data = d.bytes]
      eClose   == [Ev("Close", m.Id, part.PartId, TRUE) EXCEPT !.name = filename]
      \* defer f.Close()
      closed   == [NewFile(filename) EXCEPT !.closed = TRUE]
      written  == [closed EXCEPT !.content = d.bytes, !.written = TRUE]
      v        == << part.PartId >>
  IN  IF r.err
      THEN [err |-> TRUE, calls |-> r.calls, files |-> fs, visited |-> v]
      ELSE IF ~openOk
      THEN [err |-> TRUE, calls |-> r.calls \o << eOpen >>, files |-> fs, visited |-> v]
      ELSE IF ~d.ok
      THEN [err |-> TRUE, calls |-> r.calls \o << eOpen, eDec, eClose >>,
            files |-> Append(fs, closed), visited |-> v]
      ELSE IF ~writeOk
      THEN [err |-> TRUE, calls |-> r.calls \o << eOpen, eDec, eWrite, eClose >>,
            files |-> Append(fs, closed), visited |-> v]
      ELSE [err |-> FALSE, calls |-> r.calls \o << eOpen, eDec, eWrite, eClose >>,
            files |-> Append(fs, written), visited |-> v]

RECURSIVE processMessagePayload(_, _, _, _)
RECURSIVE RangePayloadParts(_, _, _, _, _)

\* the loop over part.Parts: the first error ends the walk
RangePayloadParts(m, kids, n, orc, fs) ==
  IF n > Len(kids) THEN [NoResult EXCEPT !.files = fs]
  ELSE LET h == processMessagePayload(m, kids[n], orc, fs)
       IN  IF h.err THEN h
           ELSE LET t == RangePayloadParts(m, kids, n + 1, orc, h.files)
                IN  [err |-> t.err, calls |-> h.calls \o t.calls, files |-> t.files,
                     visited |-> h.visited \o t.visited]

processMessagePayload(m, part, orc, fs) ==
  IF IsPDF(part) THEN processPDFFile(part, m, orc, fs)
  ELSE RangePayloadParts(m, part.Parts, 1, orc, fs)

\* full is the message Users.Messages.Get answers when getOk
processMessage(m, getOk, full, orc, fs) ==
  LET eGet    == Ev("Get", m.Id, "", getOk)
      fetch   == m.Payload = <<>>
      payload == IF ~fetch THEN m.Payload
                 ELSE IF getOk THEN full.Payload ELSE <<>>
      cur     == IF fetch /\ getOk THEN full ELSE m
      gets    == IF fetch THEN << eGet >> ELSE <<>>
  IN  IF payload # <<>>
      THEN LET r == processMessagePayload(cur, payload[1], orc, fs)
           IN  [r EXCEPT !.calls = gets \o r.calls]
      ELSE [NoResult EXCEPT !.calls = gets, !.files = fs]

(***************************************************************************)
(* Initial states                                                          *)
(***************************************************************************)
Inputs(progs) ==
  /\ prog \in progs
  /\ markRead \in BOOLEAN
  /\ writerKind \in {"ReadWriter", "WriterOnly"}
  /\ fileGen = CallerSink
  /\ \E n \in 0..MaxMsgs :
       \E trees \in [1..n -> Catalogue], summary \in [1..n -> BOOLEAN] :
         /\ mailbox = [k \in 1..n |-> Message(MsgIds[k], << trees[k] >>)]
         /\ inbox = [k \in 1..n |->
                       IF summary[k] THEN Message(MsgIds[k], <<>>)
                       ELSE Message(MsgIds[k], << trees[k] >>)]

Locals ==
  /\ msgs = <<>>
  /\ i = 0
  /\ msg = NoMsg
  /\ parts = <<>>
  /\ p = 0
  /\ processedAttachments = <<>>
  /\ processedMsgs = <<>>
  /\ readMsgs = <<>>
  /\ ret = NoRet
  /\ walked = NoWalk
  /\ trace = <<>>
  /\ files = <<>>
  /\ closeErr = 0

Init ==
  /\ Inputs({"service", "driver"})
  /\ (prog = "driver" => markRead /\ writerKind = "ReadWriter")
  /\ pc = IF prog = "service" THEN "ListMessages" ELSE "DriverList"
  /\ Locals

(***************************************************************************)
(* service.go: ProcessPDFAttachments                                       *)
(***************************************************************************)
\* head of the loop over msgs
RangeMsgs(n) == IF n > Len(msgs) THEN "MarkAsRead" ELSE "RetrieveMessage"

\* lines 131-137
ListMessages ==
  /\ prog = "service"
  /\ pc = "ListMessages"
  /\ \E ok \in BOOLEAN :
       /\ trace' = Append(trace, Ev("List", "", "", ok))
       /\ IF ok
          THEN /\ msgs' = inbox
               /\ i' = 1
               /\ pc' = IF Len(inbox) = 0 THEN "MarkAsRead" ELSE "RetrieveMessage"
               /\ ret' = ret
          ELSE /\ ret' = [returned |-> TRUE, attachments |-> <<>>, err |-> TRUE]
               /\ pc' = "Done"
               /\ UNCHANGED << msgs, i >>
  /\ UNCHANGED << inputs, closeErr, msg, parts, p, processedAttachments, processedMsgs,
                  readMsgs, walked, files >>

\* lines 140-143: the range variable msg keeps the listed message; the
\* fetched one is stored in msgs[i] only
RetrieveMessage ==
  /\ prog = "service"
  /\ pc = "RetrieveMessage"
  /\ msg' = msgs[i]
  /\ \E ok \in BOOLEAN :
       /\ trace' = Append(trace, Ev("Get", msgs[i].Id, "", ok))
       /\ msgs' = IF ok THEN [msgs EXCEPT ![i] = mailbox[i]] ELSE msgs
  /\ pc' = "RetrieveParts"
  /\ UNCHANGED << inputs, closeErr, i, parts, p, processedAttachments, processedMsgs,
                  readMsgs, ret, walked, files >>

\* variants of ContinueOuter: the failure discards the attachments the
\* message already produced; the failure leaves the loop
ContinueOuterRollback ==
  /\ i' = i + 1
  /\ pc' = RangeMsgs(i + 1)
  /\ processedAttachments' =
       IF pc = "RangeParts"
       THEN SubSeq(processedAttachments, 1, Len(processedAttachments) - (p - 1))
       ELSE processedAttachments
  /\ UNCHANGED processedMsgs

ContinueOuterBreak ==
  /\ i' = i
  /\ pc' = "MarkAsRead"
  /\ UNCHANGED << processedAttachments, processedMsgs >>

\* `continue` (line 147) and `continue OUTER` (line 156)
ContinueOuter ==
  /\ i' = i + 1
  /\ pc' = RangeMsgs(i + 1)
  /\ UNCHANGED << processedAttachments, processedMsgs >>

\* line 145-148; msg.Payload of a summary is nil and part.MimeType panics
RetrieveParts ==
  /\ prog = "service"
  /\ pc = "RetrieveParts"
  /\ IF msg.Payload = <<>>
     THEN /\ pc' = "PanicNilPart"
          /\ UNCHANGED << i, parts, p, processedAttachments, processedMsgs, trace >>
     ELSE \E resp \in [RemotePartIds(msg.Payload[1]) -> FetchOutcomes] :
            LET r == retrieveMessageAttachments(msg, msg.Payload[1], resp)
            IN  /\ trace' = trace \o r.calls
                /\ IF r.err
                   THEN /\ ContinueOuter
                        /\ UNCHANGED << parts, p >>
                   ELSE /\ parts' = r.parts
                        /\ p' = 1
                        /\ pc' = "RangeParts"
                        /\ UNCHANGED << i, processedAttachments, processedMsgs >>
  /\ UNCHANGED << inputs, closeErr, msgs, msg, readMsgs, ret, walked, files >>

\* variant of ProcessAttachment: a new attachment is put in front of the
\* ones collected so far
ProcessAttachmentPrepend ==
  /\ prog = "service"
  /\ pc = "RangeParts"
  /\ p <= Len(parts)
  /\ \E sinkOk \in BOOLEAN, writeOk \in BOOLEAN :
       LET r == processAttachment(msg, parts[p], sinkOk, writeOk, files)
       IN  /\ trace' = trace \o r.calls
           /\ files' = r.files
           /\ IF r.panic
              THEN /\ pc' = "PanicNotReader"
                   /\ UNCHANGED << i, p, processedAttachments, processedMsgs >>
              ELSE IF r.err
              THEN /\ ContinueOuter
                   /\ p' = p
              ELSE /\ processedAttachments' = << r.att >> \o processedAttachments
                   /\ p' = p + 1
                   /\ UNCHANGED << pc, i, processedMsgs >>
  /\ UNCHANGED << inputs, closeErr, msgs, msg, parts, readMsgs, ret, walked >>

\* lines 150-158, one iteration
ProcessAttachment ==
  /\ prog = "service"
  /\ pc = "RangeParts"
  /\ p <= Len(parts)
  /\ \E sinkOk \in BOOLEAN, writeOk \in BOOLEAN :
       LET r == processAttachment(msg, parts[p], sinkOk, writeOk, files)
       IN  /\ trace' = trace \o r.calls
           /\ files' = r.files
           /\ IF r.panic
              THEN /\ pc' = "PanicNotReader"
                   /\ UNCHANGED << i, p, processedAttachments, processedMsgs >>
              ELSE IF r.err
              THEN /\ ContinueOuter
                   /\ p' = p
              ELSE /\ processedAttachments' = Append(processedAttachments, r.att)
                   /\ p' = p + 1
                   /\ UNCHANGED << pc, i, processedMsgs >>
  /\ UNCHANGED << inputs, closeErr, msgs, msg, parts, readMsgs, ret, walked >>

\* line 160
AppendProcessedMsg ==
  /\ prog = "service"
  /\ pc = "RangeParts"
  /\ p > Len(parts)
  /\ processedMsgs' = Append(processedMsgs, msg)
  /\ i' = i + 1
  /\ pc' = RangeMsgs(i + 1)
  /\ UNCHANGED << inputs, closeErr, msgs, msg, parts, p, processedAttachments, readMsgs,
                  ret, walked, trace, files >>

\* variant of MarkAsRead: the request is issued whatever markRead is
MarkAsReadAlways ==
  /\ prog = "service"
  /\ pc = "MarkAsRead"
  /\ \E ok \in BOOLEAN : trace' = Append(trace, markAsRead(processedMsgs, ok))
  /\ pc' = "Return"
  /\ UNCHANGED << inputs, closeErr, msgs, i, msg, parts, p, processedAttachments,
                  processedMsgs, readMsgs, ret, walked, files >>

\* lines 164-166: the error of markAsRead is dropped
MarkAsRead ==
  /\ prog = "service"
  /\ pc = "MarkAsRead"
  /\ IF markRead
     THEN \E ok \in BOOLEAN : trace' = Append(trace, markAsRead(processedMsgs, ok))
     ELSE trace' = trace
  /\ pc' = "Return"
  /\ UNCHANGED << inputs, closeErr, msgs, i, msg, parts, p, processedAttachments,
                  processedMsgs, readMsgs, ret, walked, files >>

\* line 168
Return ==
  /\ prog = "service"
  /\ pc = "Return"
  /\ ret' = [returned |-> TRUE, attachments |-> processedAttachments, err |-> FALSE]
  /\ pc' = "Done"
  /\ UNCHANGED << inputs, closeErr, msgs, i, msg, parts, p, processedAttachments,
                  processedMsgs, readMsgs, walked, trace, files >>

(***************************************************************************)
(* unnamed/part_001: main                                                  *)
(***************************************************************************)
\* lines 58-64; chk ends the process on an error
DriverList ==
  /\ prog = "driver"
  /\ pc = "DriverList"
  /\ \E ok \in BOOLEAN :
       /\ trace' = Append(trace, Ev("List", "", "", ok))
       /\ IF ok
          THEN /\ msgs' = inbox
               /\ i' = 1
               /\ pc' = "DriverRange"
          ELSE /\ pc' = "DriverFatal"
               /\ UNCHANGED << msgs, i >>
  /\ UNCHANGED << inputs, closeErr, msg, parts, p, processedAttachments, processedMsgs,
                  readMsgs, ret, walked, files >>

\* the tree processMessage walks for the listed message m
TreeToWalk(m, n) == IF m.Payload = <<>> THEN mailbox[n].Payload[1] ELSE m.Payload[1]

\* lines 65-69, one iteration
DriverProcessMessage ==
  /\ prog = "driver"
  /\ pc = "DriverRange"
  /\ i <= Len(msgs)
  /\ msg' = msgs[i]
  /\ \E getOk \in BOOLEAN, orc \in Oracles(TreeToWalk(msgs[i], i)) :
       LET r == processMessage(msgs[i], getOk, mailbox[i], orc, files)
       IN  /\ trace' = trace \o r.calls
           /\ files' = r.files
           /\ readMsgs' = IF ~r.err THEN Append(readMsgs, msgs[i]) ELSE readMsgs
  /\ i' = i + 1
  /\ UNCHANGED << inputs, closeErr, pc, msgs, parts, p, processedAttachments, processedMsgs,
                  ret, walked >>

\* lines 71-77
DriverMarkAsRead ==
  /\ prog = "driver"
  /\ pc = "DriverRange"
  /\ i > Len(msgs)
  /\ IF Len(readMsgs) > 0
     THEN \E ok \in BOOLEAN :
            /\ trace' = Append(trace, markAsRead(readMsgs, ok))
            /\ pc' = IF ok THEN "DriverDone" ELSE "DriverFatal"
     ELSE /\ trace' = trace
          /\ pc' = "DriverDone"
  /\ UNCHANGED << inputs, closeErr, msgs, i, msg, parts, p, processedAttachments,
                  processedMsgs, readMsgs, ret, walked, files >>

Next ==
  \/ ListMessages
  \/ RetrieveMessage
  \/ RetrieveParts
  \/ ProcessAttachment
  \/ AppendProcessedMsg
  \/ MarkAsRead
  \/ Return
  \/ DriverList
  \/ DriverProcessMessage
  \/ DriverMarkAsRead

Spec == Init /\ [][Next]_vars

TypeOK == pc \in {"ListMessages", "RetrieveMessage", "RetrieveParts", "RangeParts",
                  "MarkAsRead", "Return", "Done", "PanicNilPart", "PanicNotReader",
                  "DriverList", "DriverRange", "DriverDone", "DriverFatal",
                  "Walk", "WalkedService", "WalkedDriver"}
(***************************************************************************)
(* The two walks applied to generated part trees.                          *)
(***************************************************************************)
Kinds == {"other", "inline", "remote"}

PartOfKind(kind, kids) ==
  IF kind = "other" THEN MessagePart(MIXED, "", "", NoData, kids)
  ELSE IF kind = "inline" THEN MessagePart(PDF, "f", "", HelloData, kids)
  ELSE MessagePart(PDF, "f", "A1", NoData, kids)

RECURSIVE TreesOfSize(_)
RECURSIVE ForestsOfSize(_)

\* the trees with n nodes
TreesOfSize(n) ==
  { PartOfKind(kind, kids) : kind \in Kinds, kids \in ForestsOfSize(n - 1) }

\* the sequences of trees with n nodes in all
ForestsOfSize(n) ==
  IF n = 0 THEN { <<>> }
  ELSE UNION { { << t >> \o f : t \in TreesOfSize(k), f \in ForestsOfSize(n - k) } :
               k \in 1..n }

GenTrees == UNION { { WithPartIds(t, "") : t \in TreesOfSize(n) } : n \in 1..MaxNodes }

InitWalk ==
  /\ prog = "walk"
  /\ markRead = FALSE
  /\ writerKind = "ReadWriter"
  /\ fileGen = CallerSink
  /\ \E t \in GenTrees :
       /\ mailbox = << Message(MsgIds[1], << t >>) >>
       /\ inbox = << Message(MsgIds[1], << t >>) >>
  /\ pc = "Walk"
  /\ Locals

\* service.go: retrieveMessageAttachments(msg, msg.Payload)
WalkService ==
  /\ prog = "walk"
  /\ pc = "Walk"
  /\ \E resp \in [RemotePartIds(inbox[1].Payload[1]) -> FetchOutcomes] :
       LET r == retrieveMessageAttachments(inbox[1], inbox[1].Payload[1], resp)
       IN  /\ walked' = r
           /\ trace' = r.calls
  /\ pc' = "WalkedService"
  /\ UNCHANGED << inputs, closeErr, msgs, i, msg, parts, p, processedAttachments,
                  processedMsgs, readMsgs, ret, files >>

\* mail.go: processMessagePayload(srv, userID, msg, payload, 0)
WalkDriver ==
  /\ prog = "walk"
  /\ pc = "Walk"
  /\ \E orc \in Oracles(inbox[1].Payload[1]) :
       LET r == processMessagePayload(inbox[1], inbox[1].Payload[1], orc, <<>>)
       IN  /\ walked' = [parts |-> <<>>, err |-> r.err, calls |-> r.calls,
                         visited |-> r.visited]
           /\ trace' = r.calls
           /\ files' = r.files
  /\ pc' = "WalkedDriver"
  /\ UNCHANGED << inputs, closeErr, msgs, i, msg, parts, p, processedAttachments,
                  processedMsgs, readMsgs, ret >>

NextWalk ==
  \/ WalkService
  \/ WalkDriver

SpecWalk == InitWalk /\ [][NextWalk]_vars

(***************************************************************************)
(* SpecMsg: ProcessPDFAttachments on a listing of one full message whose   *)
(* tree is a generated tree or one of the catalogue.                       *)
(***************************************************************************)
InitMsg ==
  /\ prog = "service"
  /\ markRead = TRUE
  /\ writerKind = "ReadWriter"
  /\ fileGen = CallerSink
  /\ \E t \in GenTrees \cup Catalogue :
       /\ mailbox = << Message(MsgIds[1], << t >>) >>
       /\ inbox = mailbox
  /\ pc = "ListMessages"
  /\ Locals

NextService ==
  \/ ListMessages
  \/ RetrieveMessage
  \/ RetrieveParts
  \/ ProcessAttachment
  \/ AppendProcessedMsg
  \/ MarkAsRead
  \/ Return

SpecMsg == InitMsg /\ [][NextService]_vars

\* SpecRuns: the runs of Spec together with those of SpecMsg
InitRuns == Init \/ InitMsg

SpecRuns == InitRuns /\ [][Next]_vars

(***************************************************************************)
(* SpecNames: constructFilename applied to one part of one message.  The   *)
(* original filename is any string over FilenameChars; a message id is a   *)
(* hexadecimal string and a part id a dotted position, as Gmail gives      *)
(* them.                                                                   *)
(***************************************************************************)
FilenameChars == {"a", "-", "1", "0"}
IdChars == {"1", "a"}

RECURSIVE StringsUpTo(_, _)
StringsUpTo(chars, n) ==
  IF n = 0 THEN { "" }
  ELSE LET shorter == StringsUpTo(chars, n - 1)
       IN  shorter \cup { s \o c : s \in shorter, c \in chars }

Filenames == StringsUpTo(FilenameChars, MaxNameLen)
NameMsgIds == StringsUpTo(IdChars, MaxNameLen) \ { "" }
NamePartIds == { "", DigitStr[1], DigitStr[2], ChildPartId(DigitStr[1], 2) }

NamedPart(fname, pid) ==
  [MessagePart(PDF, fname, "", HelloData, <<>>) EXCEPT !.PartId = pid]

InitNames ==
  /\ prog = "names"
  /\ markRead = FALSE
  /\ writerKind = "ReadWriter"
  /\ fileGen = CallerSink
  /\ \E fname \in Filenames, id \in NameMsgIds, pid \in NamePartIds :
       /\ mailbox = << Message(id, << NamedPart(fname, pid) >>) >>
       /\ inbox = mailbox
  /\ pc = "Name"
  /\ Locals

\* service.go line 172: filename := constructFilename(part, msg)
NameAttachment ==
  /\ prog = "names"
  /\ pc = "Name"
  /\ msg' = inbox[1]
  /\ processedAttachments' =
       << [Filename |-> constructFilename(inbox[1].Payload[1], inbox[1]), Body |-> 0] >>
  /\ pc' = "Named"
  /\ UNCHANGED << inputs, closeErr, msgs, i, parts, p, processedMsgs, readMsgs, ret,
                  walked, trace, files >>

NextNames == NameAttachment

SpecNames == InitNames /\ [][NextNames]_vars

(***************************************************************************)
(* SpecClose: ProcessedAttachments.Close over a sequence whose bodies are  *)
(* closable or not, each Close succeeding or failing.                      *)
(***************************************************************************)
BodyNames == << "f1", "f2", "f3", "f4", "f5" >>

InitClose ==
  /\ prog = "close"
  /\ markRead = FALSE
  /\ writerKind = "ReadWriter"
  /\ fileGen = CallerSink
  /\ mailbox = <<>>
  /\ inbox = <<>>
  /\ pc = "RangeAt"
  /\ msgs = <<>>
  /\ i = 1
  /\ msg = NoMsg
  /\ parts = <<>>
  /\ p = 1
  /\ processedMsgs = <<>>
  /\ readMsgs = <<>>
  /\ ret = NoRet
  /\ walked = NoWalk
  /\ trace = <<>>
  /\ closeErr = 0
  /\ \E n \in 0..MaxAtts :
       \E closers \in [1..n -> BOOLEAN] :
         /\ files = [k \in 1..n |-> [NewFile(BodyNames[k]) EXCEPT !.closer = closers[k]]]
         /\ processedAttachments = [k \in 1..n |-> [Filename |-> BodyNames[k], Body |-> k]]

\* variant of CloseBody: the first error ends the loop
CloseBodyStopAtError ==
  /\ prog = "close"
  /\ pc = "RangeAt"
  /\ p <= Len(processedAttachments)
  /\ LET f == processedAttachments[p].Body
     IN  IF files[f].closer
         THEN \E ok \in BOOLEAN :
                /\ trace' = Append(trace, [Ev("Close", "", "", ok) EXCEPT !.name = files[f].name])
                /\ files' = [files EXCEPT ![f].closed = TRUE]
                /\ closeErr' = IF ~ok /\ closeErr = 0 THEN f ELSE closeErr
                /\ p' = IF ok THEN p + 1 ELSE Len(processedAttachments) + 1
         ELSE /\ p' = p + 1
              /\ UNCHANGED << trace, files, closeErr >>
  /\ pc' = pc
  /\ UNCHANGED << inputs, msgs, i, msg, parts, processedAttachments, processedMsgs,
                  readMsgs, ret, walked >>

\* lines 108-115, one iteration; the error of body f is identified with f
CloseBody ==
  /\ prog = "close"
  /\ pc = "RangeAt"
  /\ p <= Len(processedAttachments)
  /\ LET f == processedAttachments[p].Body
     IN  IF files[f].closer
         THEN \E ok \in BOOLEAN :
                /\ trace' = Append(trace, [Ev("Close", "", "", ok) EXCEPT !.name = files[f].name])
                /\ files' = [files EXCEPT ![f].closed = TRUE]
                /\ closeErr' = IF ~ok /\ closeErr = 0 THEN f ELSE closeErr
         ELSE UNCHANGED << trace, files, closeErr >>
  /\ p' = p + 1
  /\ pc' = pc
  /\ UNCHANGED << inputs, msgs, i, msg, parts, processedAttachments, processedMsgs,
                  readMsgs, ret, walked >>

\* line 117
CloseReturn ==
  /\ prog = "close"
  /\ pc = "RangeAt"
  /\ p > Len(processedAttachments)
  /\ ret' = [returned |-> TRUE, attachments |-> <<>>, err |-> closeErr # 0]
  /\ pc' = "Closed"
  /\ UNCHANGED << inputs, msgs, i, msg, parts, p, processedAttachments, processedMsgs,
                  readMsgs, walked, trace, files, closeErr >>

NextClose ==
  \/ CloseBody
  \/ CloseReturn

SpecClose == InitClose /\ [][NextClose]_vars

(***************************************************************************)
(* Vocabulary of the properties: what the trace says happened, and which   *)
(* parts of a tree a walk is expected to match.  None of this is used by   *)
(* the actions.                                                            *)
(***************************************************************************)
RECURSIVE Paths(_)
Paths(t) ==
  { <<>> } \cup UNION { { << n >> \o q : q \in Paths(t.Parts[n]) } : n \in 1..Len(t.Parts) }

RECURSIVE NodeAt(_, _)
NodeAt(t, path) == IF path = <<>> THEN t ELSE NodeAt(t.Parts[Head(path)], Tail(path))

ProperPrefixes(path) == { SubSeq(path, 1, n) : n \in 0..(Len(path) - 1) }

\* the pdf nodes without a pdf ancestor
MatchPaths(t) ==
  { path \in Paths(t) :
      /\ NodeAt(t, path).MimeType = PDF
      /\ \A q \in ProperPrefixes(path) : NodeAt(t, q).MimeType # PDF }

\* document order: a node before its descendants, siblings left to right
Before(a, b) ==
  \/ a \in ProperPrefixes(b)
  \/ \E n \in 1..Len(a) :
       /\ n <= Len(b)
       /\ SubSeq(a, 1, n - 1) = SubSeq(b, 1, n - 1)
       /\ a[n] < b[n]

RECURSIVE InDocumentOrder(_)
InDocumentOrder(S) ==
  IF S = {} THEN <<>>
  ELSE LET first == CHOOSE a \in S : \A b \in S \ {a} : Before(a, b)
       IN  << first >> \o InDocumentOrder(S \ {first})

ExpectedMatches(t) ==
  LET sorted == InDocumentOrder(MatchPaths(t))
  IN  [n \in 1..Len(sorted) |-> NodeAt(t, sorted[n])]

ExpectedPartIds(t) ==
  LET e == ExpectedMatches(t) IN [n \in 1..Len(e) |-> e[n].PartId]

Range(f) == { f[n] : n \in DOMAIN f }

Happened(op, id, part, ok) ==
  \E n \in 1..Len(trace) :
    /\ trace[n].op = op
    /\ trace[n].id = id
    /\ trace[n].part = part
    /\ trace[n].ok = ok

ListOk == Len(trace) > 0 /\ trace[1].op = "List" /\ trace[1].ok

BatchCalls == { n \in 1..Len(trace) : trace[n].op = "BatchModify" }

MarkedIds == UNION { Range(trace[n].ids) : n \in BatchCalls }

\* the tree of the j-th listed message: its own, or the one the full fetch
\* answers when the listing gave a summary
TreeOf(j) == IF inbox[j].Payload = <<>> THEN mailbox[j].Payload[1] ELSE inbox[j].Payload[1]

IsSummary(j) == inbox[j].Payload = <<>>

PartExtracted(id, node) ==
  /\ node.Body.AttachmentId = "" \/ Happened("GetAttachment", id, node.PartId, TRUE)
  /\ Happened("Decode", id, node.PartId, TRUE)
  /\ Happened("Write", id, node.PartId, TRUE)

\* every matched part of the j-th message was resolved, decoded and written
FullyExtracted(j) ==
  \A node \in Range(ExpectedMatches(TreeOf(j))) : PartExtracted(inbox[j].Id, node)

\* a matched part of the j-th message failed in processAttachment
HasPartFailure(j) ==
  \E n \in 1..Len(trace) :
    /\ trace[n].id = inbox[j].Id
    /\ trace[n].op \in {"Sink", "Decode", "Write"}
    /\ ~trace[n].ok

HasFetchFailure(j) ==
  \E n \in 1..Len(trace) :
    /\ trace[n].id = inbox[j].Id
    /\ trace[n].op = "GetAttachment"
    /\ ~trace[n].ok

Ids(ms) == { ms[n].Id : n \in 1..Len(ms) }

Names(atts) == [n \in 1..Len(atts) |-> atts[n].Filename]

IsWrittenOk(e) == e.op = "Write" /\ e.ok

WrittenNames == LET w == SelectSeq(trace, IsWrittenOk) IN [n \in 1..Len(w) |-> w[n].name]

ServiceReturned == prog = "service" /\ pc = "Done" /\ ListOk

(***************************************************************************)
(* C1: with markRead=true, a listed message is in the mark-read request    *)
(* if and only if every pdf part matched in its tree was resolved,         *)
(* decoded and written without error.                                      *)
(***************************************************************************)
C1_MarkedIffFullyExtracted ==
  (ServiceReturned /\ markRead) =>
     \A j \in 1..Len(msgs) : (inbox[j].Id \in MarkedIds) <=> FullyExtracted(j)

(***************************************************************************)
(* C2: a listed summary whose full fetch succeeds is processed from the    *)
(* fetched tree: the run does not fail on the absent summary tree, and     *)
(* each extracted pdf part of the fetched tree gives one attachment.       *)
(***************************************************************************)
GetAnswered(j, ok) == Happened("Get", inbox[j].Id, "", ok)

C2_SummaryIsHydratedAndWalked ==
  prog = "service" =>
    \A j \in 1..Len(msgs) :
      (IsSummary(j) /\ GetAnswered(j, TRUE)) =>
         /\ ~(pc = "PanicNilPart" /\ i = j)
         /\ (i > j) =>
              \A node \in Range(ExpectedMatches(TreeOf(j))) :
                 Cardinality({ n \in 1..Len(processedAttachments) :
                    processedAttachments[n].Filename = constructFilename(node, inbox[j]) }) = 1

(***************************************************************************)
(* C3: a listed summary whose full fetch fails is skipped: no crash, no    *)
(* attachment for it, and its id is never marked read, in                  *)
(* ProcessPDFAttachments and in the driver loop.                           *)
(***************************************************************************)
NothingProducedFor(j) ==
  \A n \in 1..Len(trace) :
    trace[n].id = inbox[j].Id => trace[n].op \notin {"Sink", "Decode", "Write"}

C3_ServiceSkips ==
  prog = "service" =>
    \A j \in 1..Len(msgs) :
      (IsSummary(j) /\ GetAnswered(j, FALSE)) =>
         /\ ~(pc = "PanicNilPart" /\ i = j)
         /\ NothingProducedFor(j)
         /\ inbox[j].Id \notin Ids(processedMsgs) \cup MarkedIds

C3_DriverSkips ==
  prog = "driver" =>
    \A j \in 1..Len(msgs) :
      (IsSummary(j) /\ GetAnswered(j, FALSE)) =>
         /\ NothingProducedFor(j)
         /\ inbox[j].Id \notin Ids(readMsgs) \cup MarkedIds

C3_FailedFetchIsSkipped == C3_ServiceSkips /\ C3_DriverSkips

(***************************************************************************)
(* C4: when a matched part of a message fails in processAttachment, the    *)
(* attachments already produced stay in the returned sequence, and the     *)
(* message is not marked read.                                             *)
(***************************************************************************)
C4_NoRollback ==
  ServiceReturned =>
    /\ Names(ret.attachments) = WrittenNames
    /\ \A j \in 1..Len(msgs) :
         HasPartFailure(j) => inbox[j].Id \notin Ids(processedMsgs) \cup MarkedIds

C4_Witness ==
  /\ ServiceReturned
  /\ markRead
  /\ BatchCalls # {}
  /\ \E j \in 1..Len(msgs) :
       /\ HasPartFailure(j)
       /\ inbox[j].Id \notin MarkedIds
       /\ \E n \in 1..Len(trace) :
            /\ IsWrittenOk(trace[n])
            /\ trace[n].id = inbox[j].Id
            /\ trace[n].name \in Range(Names(ret.attachments))

(***************************************************************************)
(* C5: at most one mark-read request per run, issued after the last        *)
(* message was processed, carrying exactly the ids of the fully extracted  *)
(* messages, each once.                                                    *)
(***************************************************************************)
C5_OneFinalExactBatch ==
  prog = "service" =>
    /\ Cardinality(BatchCalls) <= 1
    /\ \A n \in BatchCalls :
         /\ \A k \in (n + 1)..Len(trace) :
              trace[k].op \notin {"Get", "GetAttachment", "Sink", "Write"}
         /\ Range(trace[n].ids) = { inbox[j].Id : j \in { k \in 1..Len(msgs) : FullyExtracted(k) } }
         /\ Cardinality(Range(trace[n].ids)) = Len(trace[n].ids)

(***************************************************************************)
(* C6: when no message was fully extracted (in particular when the         *)
(* listing is empty) no mark-read request is issued; an empty listing      *)
(* gives zero attachments; no error is returned.                           *)
(***************************************************************************)
C6_NoBatchForEmptySet ==
  (ServiceReturned /\ { j \in 1..Len(msgs) : FullyExtracted(j) } = {}) =>
     /\ BatchCalls = {}
     /\ (Len(msgs) = 0 => ret.attachments = <<>>)
     /\ ~ret.err

(***************************************************************************)
(* C7: when the mark-read request fails, ProcessPDFAttachments returns an  *)
(* error together with the attachments produced.                           *)
(***************************************************************************)
C7_BatchFailureIsReported ==
  (ServiceReturned /\ \E n \in BatchCalls : ~trace[n].ok) =>
     /\ ret.err
     /\ ret.attachments = processedAttachments

(***************************************************************************)
(* C8: a failure on one message (attachment fetch, decode, sink) does not  *)
(* end the run: every listed message is still fetched and processed, and   *)
(* whether a message is kept for mark-read depends on its own outcome only.*)
(***************************************************************************)
\* the outcome of the j-th message as the trace of that message alone shows it
RootFetchFailed(j) == Happened("GetAttachment", inbox[j].Id, "", FALSE)

ServiceOwnOutcome(j) == ~HasPartFailure(j) /\ ~RootFetchFailed(j)

DriverOwnOutcome(j) == ~HasPartFailure(j) /\ ~HasFetchFailure(j)

C8_FailuresAreIsolated ==
  /\ ServiceReturned =>
       \A j \in 1..Len(msgs) :
         /\ \E ok \in BOOLEAN : GetAnswered(j, ok)
         /\ (inbox[j].Id \in Ids(processedMsgs)) <=> ServiceOwnOutcome(j)
  /\ (prog = "driver" /\ pc \in {"DriverDone", "DriverFatal"} /\ ListOk) =>
       \A j \in 1..Len(msgs) :
         /\ IsSummary(j) => \E ok \in BOOLEAN : GetAnswered(j, ok)
         /\ (inbox[j].Id \in Ids(readMsgs)) <=> DriverOwnOutcome(j)

C8_Witness ==
  /\ ServiceReturned
  /\ \E j \in 1..Len(msgs), k \in 1..Len(msgs) :
       /\ j < k
       /\ HasPartFailure(j) \/ HasFetchFailure(j)
       /\ inbox[j].Id \notin Ids(processedMsgs)
       /\ inbox[k].Id \in Ids(processedMsgs)
       /\ Happened("Write", inbox[k].Id, "", TRUE)
(***************************************************************************)
(* C9: for every part tree, the walk matches exactly the pdf parts that    *)
(* have no pdf ancestor, in pre-order, depth first, left to right; the     *)
(* children of a matched part are never visited; a non-matching node       *)
(* without children yields nothing and no error.  (SpecWalk)               *)
(***************************************************************************)
PartIdsOf(ps) == [n \in 1..Len(ps) |-> ps[n].PartId]

FetchFailedIn(calls, q) ==
  \E n \in 1..Len(calls) :
    calls[n].op = "GetAttachment" /\ calls[n].part = q /\ ~calls[n].ok

IsPrefix(a, b) == Len(a) <= Len(b) /\ a = SubSeq(b, 1, Len(a))

CallsFor(id, q) ==
  { n \in 1..Len(trace) :
      trace[n].op = "GetAttachment" /\ trace[n].id = id /\ trace[n].part = q }

\* the message at position j has been through retrieveMessageAttachments
WalkedMsg(j) == j < i \/ (j = i /\ pc \in {"RangeParts", "PanicNotReader"})

C10_ResolverFetchesOnce ==
  prog = "service" =>
    \A j \in 1..Len(msgs) :
      (WalkedMsg(j) /\ ~IsSummary(j)) =>
        \A node \in Range(ExpectedMatches(inbox[j].Payload[1])) :
          LET id     == inbox[j].Id
              remote == node.Body.AttachmentId # ""
              calls  == CallsFor(id, node.PartId)
          IN  /\ Cardinality(calls) = IF remote THEN 1 ELSE 0
              /\ \A n \in calls : trace[n].att = node.Body.AttachmentId
              /\ \A n \in 1..Len(trace) :
                   (trace[n].id = id /\ trace[n].part = node.PartId) =>
                     LET src == IF remote THEN trace[CHOOSE c \in calls : TRUE].data
                                ELSE node.Body.Data
                     IN  /\ trace[n].op = "Decode" => trace[n].data = src
                         /\ IsWrittenOk(trace[n]) => trace[n].data = DecodeString(src).bytes

C10_Witness ==
  /\ ServiceReturned
  /\ \E j \in 1..Len(msgs), k \in 1..Len(msgs) :
       /\ ~IsSummary(j)
       /\ ~IsSummary(k)
       /\ \E node \in Range(ExpectedMatches(inbox[j].Payload[1])) :
            /\ node.Body.AttachmentId # ""
            /\ PartExtracted(inbox[j].Id, node)
       /\ \E node \in Range(ExpectedMatches(inbox[k].Payload[1])) :
            /\ node.Body.AttachmentId = ""
            /\ PartExtracted(inbox[k].Id, node)

CloseCalls(name) == { n \in 1..Len(trace) : trace[n].op = "Close" /\ trace[n].name = name }

FailedCloses ==
  { k \in 1..Len(processedAttachments) :
      \E n \in CloseCalls(files[processedAttachments[k].Body].name) : ~trace[n].ok }

C12_CloseReleasesAllReturnsFirstError ==
  (prog = "close" /\ pc = "Closed") =>
    /\ \A k \in 1..Len(processedAttachments) :
         LET f == files[processedAttachments[k].Body]
         IN  /\ Cardinality(CloseCalls(f.name)) = IF f.closer THEN 1 ELSE 0
             /\ f.closed = f.closer
    /\ closeErr = IF FailedCloses = {} THEN 0
                  ELSE processedAttachments[CHOOSE k \in FailedCloses :
                                              \A l \in FailedCloses : k <= l].Body
    /\ ret.err = (FailedCloses # {})

\* a Close fails, a later body is closed all the same, and a second Close
\* fails after the first; a body that is not closable lies in between
C12_Witness ==
  /\ prog = "close"
  /\ pc = "Closed"
  /\ Cardinality(FailedCloses) >= 2
  /\ \E k \in 1..Len(processedAttachments) :
       /\ ~files[processedAttachments[k].Body].closer
       /\ \E a \in FailedCloses : a < k
       /\ \E b \in 1..Len(processedAttachments) :
            b > k /\ b \notin FailedCloses /\ files[processedAttachments[b].Body].closed

(***************************************************************************)
(* C13: every writable resource a run of ProcessPDFAttachments uses is     *)
(* obtained from the fileGen the caller passed: with a sink that is not    *)
(* the service's default, every request goes to the caller's sink and none *)
(* to the default.                                                         *)
(***************************************************************************)
C13_ResourcesComeFromFileGen ==
  (prog = "service" /\ fileGen # FileGenerator) =>
    \A n \in 1..Len(trace) : trace[n].op = "Sink" => trace[n].gen = fileGen

(***************************************************************************)
(* C14: processAttachment completes and returns a Processed Attachment for *)
(* any writer the WriterGenerator returns, a writer that is not a reader   *)
(* included: the kind of the writer never aborts the run.                  *)
(***************************************************************************)
C14_AnyWriterCompletes ==
  prog = "service" => pc # "PanicNotReader"

(***************************************************************************)
(* C15: the sink is asked for a resource for a part only after the data of *)
(* that part has been decoded without error; a part whose data fails to    *)
(* decode causes no request to the sink.                                   *)
(***************************************************************************)
C15_SinkAskedAfterDecode ==
  \A n \in 1..Len(trace) :
    trace[n].op = "Sink" =>
      \E k \in 1..(n - 1) :
        /\ trace[k].op = "Decode"
        /\ trace[k].ok
        /\ trace[k].id = trace[n].id
        /\ trace[k].part = trace[n].part

(***************************************************************************)
(* C16: within one message the first failure, of a resolve or of a decode, *)
(* stops all work on that message: after it no GetAttachment, no sink      *)
(* request and no write is made for any later matched part of the same     *)
(* message.                                                                *)
(***************************************************************************)
IsPartFailure(e) == e.op \in {"GetAttachment", "Decode"} /\ ~e.ok

C16_FirstFailureStopsTheMessage ==
  prog = "service" =>
    \A n \in 1..Len(trace) :
      IsPartFailure(trace[n]) =>
        \A k \in (n + 1)..Len(trace) :
          ~ /\ trace[k].id = trace[n].id
            /\ trace[k].part # trace[n].part
            /\ trace[k].op \in {"GetAttachment", "Sink", "Write"}

(***************************************************************************)
(* C17: messages are processed one at a time, in listing order, each       *)
(* exactly once: every call and every sink write for a message comes       *)
(* before those for the next one, no message is counted processed twice,   *)
(* and the attachments are returned in listing order of their messages     *)
(* and, within a message, in walk order of their parts.                    *)
(***************************************************************************)
PosOf(id) == CHOOSE j \in 1..Len(inbox) : inbox[j].Id = id

WalkPos(id, part) ==
  LET pids == ExpectedPartIds(inbox[PosOf(id)].Payload[1])
  IN  CHOOSE k \in 1..Len(pids) : pids[k] = part

IsGet(e) == e.op = "Get"
IsForMessage(e) == e.id # ""

\* the events of one kind made for the parts, in trace order
PartEvents(op) == SelectSeq(trace, LAMBDA e : e.op = op)

\* consecutive events of a sequence are in listing order of their messages
\* and, when strict, in walk order of their parts within a message
InRunOrder(evs, strict) ==
  \A n \in 1..(Len(evs) - 1) :
    \/ PosOf(evs[n].id) < PosOf(evs[n + 1].id)
    \/ /\ evs[n].id = evs[n + 1].id
       /\ strict => WalkPos(evs[n].id, evs[n].part) < WalkPos(evs[n + 1].id, evs[n + 1].part)

C17_OneAtATimeInListingOrder ==
  (prog = "service" /\ ListOk) =>
    /\ LET gets == SelectSeq(trace, IsGet)
       IN  /\ Len(gets) <= Len(inbox)
           /\ \A n \in 1..Len(gets) : gets[n].id = inbox[n].Id
    /\ InRunOrder(SelectSeq(trace, IsForMessage), FALSE)
    /\ \A op \in {"GetAttachment", "Sink", "Decode", "Write"} : InRunOrder(PartEvents(op), TRUE)
    /\ \A n \in 1..Len(processedMsgs), k \in 1..Len(processedMsgs) :
         n < k => PosOf(processedMsgs[n].Id) < PosOf(processedMsgs[k].Id)
    /\ IsPrefix(Names(processedAttachments), WrittenNames)
    /\ pc = "Done" => /\ ret.attachments = processedAttachments
                      /\ Names(ret.attachments) = WrittenNames

\* two messages have been processed, each with an attachment returned, and
\* in one message two parts went to the sink
C17_Witness ==
  /\ ServiceReturned
  /\ Len(inbox) >= 2
  /\ Len(processedMsgs) >= 1
  /\ \E a \in 1..Len(trace), b \in 1..Len(trace), c \in 1..Len(trace), d \in 1..Len(trace) :
       /\ IsWrittenOk(trace[a])
       /\ IsWrittenOk(trace[b])
       /\ trace[a].id # trace[b].id
       /\ trace[c].op = "Sink"
       /\ trace[d].op = "Sink"
       /\ trace[c].id = trace[d].id
       /\ trace[c].part # trace[d].part
  /\ Len(ret.attachments) >= 2

(***************************************************************************)
(* C18: at the end of a run every resource obtained from the sink is       *)
(* referenced by exactly one returned Processed Attachment, so that Close  *)
(* on the returned sequence releases every resource the run opened; none   *)
(* is left open and unreachable after a decode or write failure.           *)
(***************************************************************************)
C18_EveryResourceIsReturned ==
  ServiceReturned =>
    \A f \in 1..Len(files) :
      Cardinality({ k \in 1..Len(ret.attachments) : ret.attachments[k].Body = f }) = 1

(***************************************************************************)
(* C19: with markRead = false no mark-read request is ever issued, and     *)
(* the attachments returned are those of the run with markRead = true on   *)
(* the same inputs: they are what the sink requests and writes of the run  *)
(* produced, and the step that reads markRead leaves them as they are.     *)
(***************************************************************************)
IsSinkOk(e) == e.op = "Sink" /\ e.ok

\* the attachments as the events other than BatchModify determine them:
\* one per successful write, on the resource of the sink request before it
AttachmentsOfTrace ==
  LET writes == { n \in 1..Len(trace) : IsWrittenOk(trace[n]) }
      nth(k) == CHOOSE n \in writes : Cardinality({ m \in writes : m < n }) = k - 1
  IN  [k \in 1..Cardinality(writes) |->
         [Filename |-> trace[nth(k)].name,
          Body     |-> Len(SelectSeq(SubSeq(trace, 1, nth(k)), IsSinkOk))]]

C19_NoMarkReadInvariant ==
  prog = "service" =>
    /\ ~markRead => BatchCalls = {}
    /\ (pc = "Done" /\ ListOk) => ret.attachments = AttachmentsOfTrace

C19_MarkReadStep ==
  (prog = "service" /\ pc = "MarkAsRead") =>
    /\ UNCHANGED << processedAttachments, processedMsgs, files, msgs, ret >>
    /\ \/ trace' = trace
       \/ markRead /\ Len(trace') = Len(trace) + 1 /\ trace'[Len(trace')].op = "BatchModify"

C19_MarkReadFalseOnlyOmitsTheRequest ==
  [] C19_NoMarkReadInvariant /\ [][C19_MarkReadStep]_vars

\* a run without mark-read that returned an attachment of a processed message
C19_Witness ==
  /\ ServiceReturned
  /\ ~markRead
  /\ Len(processedMsgs) >= 1
  /\ Len(ret.attachments) >= 1
  /\ \E j \in 1..Len(inbox) : HasPartFailure(j)
====
